---- MODULE Spec2Model ----
(***************************************************************************)
(* Model of src/lib.rs (file_scanner): scan_and_save walks a tree, extracts *)
(* one FileInfo per entry, splits the collected records into chunks and     *)
(* writes each chunk in one SQLite transaction, then drains the result      *)
(* channel.  The SQLite file persists between calls, so several calls are   *)
(* modelled on the same store.                                              *)
(***************************************************************************)
EXTENDS Integers, Sequences, FiniteSets, TLC

\* ---------------------------------------------------------------- bounds
MaxChildren == 2      \* candidate entries below the root
MaxBatchSize == 2     \* batch_size ranges over 0..MaxBatchSize

Root == 0
Paths == 0..MaxChildren
Children == 1..MaxChildren

\* What a path is on disk.  Root: a directory with a name ("dir"), "/" (no
\* file name, no parent), "." (no file name, parent ""), or missing.
\* Child: not there, a regular file, a sub-directory, an entry whose
\* metadata cannot be read, or an entry the walker reports as an error.
RootKinds == {"dir", "slash", "dot", "missing"}
ChildKinds == {"absent", "file", "dir", "nometa", "walkerr"}
KindRank(k) ==
    CASE k = "absent" -> 0 [] k = "file" -> 1 [] k = "dir" -> 2
      [] k = "nometa" -> 3 [] k = "walkerr" -> 4 [] OTHER -> 5

\* The trees a call can meet.  Children are interchangeable, so only one
\* representative of each arrangement is kept; a missing root has no children.
Trees ==
    { t \in [Paths -> RootKinds \cup ChildKinds] :
        /\ t[Root] \in RootKinds
        /\ \A c \in Children : t[c] \in ChildKinds
        /\ \A c \in Children : c > 1 => KindRank(t[c - 1]) >= KindRank(t[c])
        /\ t[Root] = "missing" => \A c \in Children : t[c] = "absent" }

ErrCodes == {"SQLITE_BUSY", "SQLITE_FULL"}
OK == "ok"

VARIABLES
    pc,           \* position of scan_and_save
    batch_size,   \* argument of the current call
    fs,           \* the tree under root seen by the current call
    tableExists,  \* the files table exists in the store
    table,        \* committed rows of the files table, in insertion order
    preExists,    \* tableExists when the current call was made
    preRows,      \* the table held rows when the current call was made
    setupOk,      \* setup_db of the current call returned Ok
    pending,      \* walker entries not yet passed to scan_file
    scanned,      \* number of scan_file calls of the current call
    collected,    \* the Vec<FileInfo> being collected
    cur,          \* index of the chunk being written (1-based)
    txrows,       \* rows inserted in the open, uncommitted transaction
    results,      \* every value sent on the channel, in send order
    failedAt,     \* inserts executed by the latest failed batch write
    rxpos,        \* number of values the drain loop has received
    outcome,      \* "none", "Ok", "Err" or "Panic"
    surfaced,     \* the error carried by Err
    conns,        \* the connections to the store that are open
    writers,      \* per batch write begun: the connection it writes on
    overlapped,   \* two batch connections have been open at the same time
    openFailed    \* a batch connection could not be opened

vars == << pc, batch_size, fs, tableExists, table, preExists, preRows,
           setupOk, pending, scanned, collected, cur, txrows, results,
           failedAt, rxpos, outcome, surfaced, conns, writers, overlapped,
           openFailed >>

\* ------------------------------------------------------------ the walker
\* a walker whose errors are handed on instead of being filtered out
WalkKeepsErrors(tree) == { p \in Paths : tree[p] # "absent" }

\* WalkDir::new(root).into_iter().filter_map(|e| e.ok()): the root itself
\* (depth 0) and every entry below it, directories included; entries the
\* walker reports as errors (a missing root among them) are dropped.
WalkEntries(tree) ==
    { p \in Paths : tree[p] \notin {"absent", "walkerr", "missing"} }

\* fs::metadata(file).ok()
MetadataOk(k) == k \in {"file", "dir", "slash", "dot"}
\* file.file_name(): None for "/" and "."
HasFileName(k) == k \in {"file", "dir", "nometa"}
\* file.parent(): None for "/"
HasParent(k) == k # "slash"

None == [none |-> TRUE]

\* struct FileInfo: file_name, file_path and the three dates are read from
\* the same path and metadata and never looked at again by this module, so
\* a record is told apart by its full_path
FileInfo(p) == [full_path |-> p]

\* a scan_file that makes a record of whatever it is given
scan_fileKeepsUnreadable(tree, p) == FileInfo(p)

\* scan_file: a record, or None at one of the three `?`
scan_file(tree, p) ==
    IF ~MetadataOk(tree[p]) THEN None
    ELSE IF ~HasFileName(tree[p]) THEN None
    ELSE IF ~HasParent(tree[p]) THEN None
    ELSE FileInfo(p)

\* ------------------------------------------------------------- chunks
Min(a, b) == IF a < b THEN a ELSE b

\* a chunk count that forgets the shorter last chunk
NumChunksFullOnly(v, n) == Len(v) \div n

\* number of chunks of slice.chunks(n), n >= 1
NumChunks(v, n) == (Len(v) + n - 1) \div n

\* chunks that run one element into the next chunk
ChunkOverlapping(v, n, i) == SubSeq(v, (i - 1) * n + 1, Min(i * n + 1, Len(v)))

\* the i-th chunk (1-based) of v.chunks(n)
Chunk(v, n, i) == SubSeq(v, (i - 1) * n + 1, Min(i * n, Len(v)))

NumBatches == IF batch_size = 0 THEN 0 ELSE NumChunks(collected, batch_size)
Batch(i) == Chunk(collected, batch_size, i)

\* a row of the files table; stale marks a row written by an earlier call
Row(rec) == [full_path |-> rec.full_path, stale |-> FALSE]

\* the rows a call finds in the store were written by earlier calls
MarkStale(tbl) == [k \in 1..Len(tbl) |-> [tbl[k] EXCEPT !.stale = TRUE]]

\* ------------------------------------------------------------ the store
\* the connection opened at line 95, which setup_db runs on
SetupConn == 0

\* a closure that writes on the connection of line 95
BatchConnShared(i) == SetupConn

\* the connection opened at line 110 by the closure call for chunk i: a new
\* one each time, which shadows the connection of line 95
BatchConn(i) == i

\* an open failure that gives the batch up and lets the run go on
AfterOpenSkipsBatch(ok) == IF ok THEN "begin" ELSE "drain"

\* Connection::open(&db_path).unwrap() (line 110): Ok goes on, Err panics
AfterOpen(ok) == IF ok THEN "begin" ELSE "panicked"

\* the batch connections that are open: the batch writes in progress
InProgress == conns \ {SetupConn}

SetupOutcomes == {"open_err", "create_err", "delete_err", "ok"}

\* a setup_db that forgets the DELETE
ClearTableSkipped(tbl) == tbl

\* DELETE FROM files
ClearTable(tbl) == << >>

\* a setup error that is ignored instead of returned
AfterSetupIgnoresError(out) == "scan"

\* the `?` after Connection::open and setup_db: Ok goes on, Err returns
AfterSetup(out) == IF out = "ok" THEN "scan" ELSE "returned"

\* a transaction whose drop behaviour is commit: the rows inserted before
\* the failure stay
RollbackKeepsRows(tbl, txr) == tbl \o txr

\* a failure that rolls back the rows of the earlier batches too
RollbackWholeRun(tbl, txr) == << >>

\* a Transaction dropped without commit rolls back: its rows never reach
\* the table
Rollback(tbl, txr) == tbl

\* tx.commit(): the rows of the transaction become rows of the table
CommitTx(tbl, txr) == tbl \o txr

\* ----------------------------------------------------------- the channel
IsErr(r) == r # OK

\* a drain loop that drops the Err it receives
PropagatesNever(r) == FALSE

\* result.map_err(..)? (line 116): an Err leaves the loop and the function
Propagates(r) == r # OK

\* a channel that hands out the latest value first
RecvLatestFirst(ch, pos) == ch[Len(ch) - pos]

\* rx yields the values in the order they were sent
Recv(ch, pos) == ch[pos + 1]

\* a loop that stops at the first failed batch (try_for_each)
MoreBatchesUntilError(c, n, r) == c < n /\ r = OK

\* Iterator::for_each runs the closure for every chunk, whatever the
\* previous one sent
MoreBatches(c, n, r) == c < n

\* ------------------------------------------------------------------ Init
Init ==
    /\ pc = "idle"
    /\ batch_size = 0
    /\ fs = [p \in Paths |-> IF p = Root THEN "missing" ELSE "absent"]
    /\ tableExists = FALSE
    /\ table = << >>
    /\ preExists = FALSE
    /\ preRows = FALSE
    /\ setupOk = FALSE
    /\ pending = {}
    /\ scanned = 0
    /\ collected = << >>
    /\ cur = 0
    /\ txrows = << >>
    /\ results = << >>
    /\ failedAt = 0
    /\ rxpos = 0
    /\ outcome = "none"
    /\ surfaced = "none"
    /\ conns = {}
    /\ writers = << >>
    /\ overlapped = FALSE
    /\ openFailed = FALSE

\* --------------------------------------------------------------- actions
\* scan_and_save(root, db_path, batch_size) is called (line 94)
Call(bs, tree) ==
    /\ pc = "idle"
    /\ pc' = "init"
    /\ batch_size' = bs
    /\ fs' = tree
    /\ preExists' = tableExists
    /\ table' = MarkStale(table)
    /\ preRows' = (table # << >>)
    /\ setupOk' = FALSE
    /\ pending' = {}
    /\ scanned' = 0
    /\ collected' = << >>
    /\ cur' = 0
    /\ txrows' = << >>
    /\ results' = << >>
    /\ failedAt' = 0
    /\ rxpos' = 0
    /\ outcome' = "none"
    /\ surfaced' = "none"
    /\ conns' = {}
    /\ writers' = << >>
    /\ overlapped' = FALSE
    /\ openFailed' = FALSE
    /\ UNCHANGED tableExists

\* Connection::open, then setup_db: CREATE TABLE IF NOT EXISTS, DELETE FROM
\* files (lines 95-98, 76-91); each can fail and the error is returned.
\* On Ok the channel and the walker are created (lines 100-101).
Setup(out, e) ==
    /\ pc = "init"
    /\ tableExists' = (tableExists \/ out \in {"delete_err", "ok"})
    /\ table' = IF out = "ok" THEN ClearTable(table) ELSE table
    /\ setupOk' = (out = "ok")
    /\ pc' = AfterSetup(out)
    /\ outcome' = IF pc' = "returned" THEN "Err" ELSE "none"
    /\ surfaced' = IF pc' = "returned" THEN e ELSE "none"
    /\ pending' = IF pc' = "scan" THEN WalkEntries(fs) ELSE {}
    /\ conns' = IF pc' = "returned" THEN {} ELSE {SetupConn}
    /\ UNCHANGED << batch_size, fs, preExists, preRows, scanned,
                    collected, cur, txrows, results, failedAt, rxpos,
                    writers, overlapped, openFailed >>

\* par_bridge().filter_map(scan_file).collect(): the entries are taken in
\* any order, each record is pushed as it is produced (lines 103-106)
ScanEntry(p) ==
    /\ pc = "scan"
    /\ p \in pending
    /\ pending' = pending \ {p}
    /\ scanned' = scanned + 1
    /\ collected' = IF scan_file(fs, p) = None THEN collected
                    ELSE Append(collected, scan_file(fs, p))
    /\ UNCHANGED << pc, batch_size, fs, tableExists, table, preExists,
                    preRows, setupOk, cur, txrows, results, failedAt, rxpos,
                    outcome, surfaced, conns, writers, overlapped,
                    openFailed >>

\* batches cut from the records while the walk is still going on
CollectDoneEarly(pend) == TRUE

\* collect::<Vec<FileInfo>>() returns when the parallel iterator is
\* exhausted: every walked entry has been through scan_file
CollectDone(pend) == pend = {}

\* .chunks(batch_size) on the collected Vec (line 107): panics when
\* batch_size is 0; for_each then takes the first chunk, if any
Chunks ==
    /\ pc = "scan"
    /\ CollectDone(pending)
    /\ IF batch_size = 0
       THEN /\ pc' = "panicked"
            /\ outcome' = "Panic"
            /\ cur' = cur
       ELSE /\ pc' = IF NumBatches = 0 THEN "drain" ELSE "open"
            /\ outcome' = outcome
            /\ cur' = IF NumBatches = 0 THEN cur ELSE 1
    /\ conns' = IF pc' = "panicked" THEN {} ELSE conns
    /\ UNCHANGED << batch_size, fs, tableExists, table, preExists,
                    preRows, setupOk, pending, scanned, collected, txrows,
                    results, failedAt, rxpos, surfaced, writers, overlapped,
                    openFailed >>

\* Connection::open(&db_path).unwrap() (line 110): the closure call for
\* chunk cur opens its own connection, and panics on failure; the unwinding
\* drops the connection of line 95
OpenConn(ok) ==
    /\ pc = "open"
    /\ pc' = AfterOpen(ok)
    /\ outcome' = IF pc' = "panicked" THEN "Panic" ELSE outcome
    /\ openFailed' = ~ok
    /\ conns' = IF pc' = "panicked" THEN {}
                ELSE IF ok THEN conns \cup {BatchConn(cur)} ELSE conns
    /\ writers' = IF ok THEN Append(writers, BatchConn(cur)) ELSE writers
    /\ overlapped' = (overlapped \/ Cardinality(conns' \ {SetupConn}) >= 2)
    /\ UNCHANGED << batch_size, fs, tableExists, table, preExists,
                    preRows, setupOk, pending, scanned, collected, cur,
                    txrows, results, failedAt, rxpos, surfaced >>

\* tx.send(save_batch_to_db(..)) (line 111): the result r of the batch
\* write goes on the channel, the connection is dropped, for_each goes on
Send(r, n) ==
    /\ results' = Append(results, r)
    /\ failedAt' = IF IsErr(r) THEN n ELSE failedAt
    /\ txrows' = << >>
    /\ IF MoreBatches(cur, NumBatches, r)
       THEN pc' = "open" /\ cur' = cur + 1
       ELSE pc' = "drain" /\ cur' = cur
    /\ conns' = conns \ {BatchConn(cur)}
    /\ UNCHANGED << batch_size, fs, tableExists, preExists, preRows,
                    setupOk, pending, scanned, collected, rxpos, outcome,
                    surfaced, writers, overlapped, openFailed >>

\* conn.transaction()? (line 54)
Begin(r) ==
    /\ pc = "begin"
    /\ IF IsErr(r)
       THEN Send(r, 0) /\ table' = table
       ELSE /\ pc' = "prepare"
            /\ UNCHANGED << batch_size, fs, tableExists, table,
                            preExists, preRows, setupOk, pending, scanned,
                            collected, cur, txrows, results, failedAt, rxpos,
                            outcome, surfaced, conns, writers, overlapped,
                            openFailed >>

\* tx.prepare(..)? (lines 56-59)
Prepare(r) ==
    /\ pc = "prepare"
    /\ IF IsErr(r)
       THEN Send(r, 0) /\ table' = Rollback(table, txrows)
       ELSE /\ pc' = "insert"
            /\ UNCHANGED << batch_size, fs, tableExists, table,
                            preExists, preRows, setupOk, pending, scanned,
                            collected, cur, txrows, results, failedAt, rxpos,
                            outcome, surfaced, conns, writers, overlapped,
                            openFailed >>

\* stmt.execute(params![..])? for the next record of the batch (lines 60-69)
Insert(r) ==
    /\ pc = "insert"
    /\ Len(txrows) < Len(Batch(cur))
    /\ IF IsErr(r)
       THEN Send(r, Len(txrows) + 1) /\ table' = Rollback(table, txrows)
       ELSE /\ txrows' = Append(txrows, Row(Batch(cur)[Len(txrows) + 1]))
            /\ UNCHANGED << pc, batch_size, fs, tableExists, table,
                            preExists, preRows, setupOk, pending, scanned,
                            collected, cur, results, failedAt, rxpos,
                            outcome, surfaced, conns, writers, overlapped,
                            openFailed >>

\* tx.commit() after the last insert (line 71)
Commit(r) ==
    /\ pc = "insert"
    /\ Len(txrows) = Len(Batch(cur))
    /\ table' = IF IsErr(r) THEN Rollback(table, txrows)
                ELSE CommitTx(table, txrows)
    /\ Send(r, Len(txrows))

\* for result in rx { result.map_err(..)?; } (lines 114-117): the first Err
\* received is returned
DrainRecv ==
    /\ pc = "drain"
    /\ rxpos < Len(results)
    /\ rxpos' = rxpos + 1
    /\ IF Propagates(Recv(results, rxpos))
       THEN /\ pc' = "returned"
            /\ outcome' = "Err"
            /\ surfaced' = Recv(results, rxpos)
       ELSE UNCHANGED << pc, outcome, surfaced >>
    /\ conns' = IF pc' = "returned" THEN {} ELSE conns
    /\ UNCHANGED << batch_size, fs, tableExists, table, preExists,
                    preRows, setupOk, pending, scanned, collected, cur,
                    txrows, results, failedAt, writers, overlapped,
                    openFailed >>

\* the channel is empty and every sender is dropped: Ok(()) (line 119)
DrainEnd ==
    /\ pc = "drain"
    /\ rxpos = Len(results)
    /\ pc' = "returned"
    /\ outcome' = "Ok"
    /\ conns' = {}
    /\ UNCHANGED << batch_size, fs, tableExists, table, preExists,
                    preRows, setupOk, pending, scanned, collected, cur,
                    txrows, results, failedAt, rxpos, surfaced, writers,
                    overlapped, openFailed >>

\* the call is over (returned or unwound): its locals are gone, the store
\* stays as it is
Return ==
    /\ pc \in {"returned", "panicked"}
    /\ pc' = "idle"
    /\ batch_size' = 0
    /\ fs' = [p \in Paths |-> IF p = Root THEN "missing" ELSE "absent"]
    /\ preExists' = tableExists
    /\ preRows' = (table # << >>)
    /\ setupOk' = FALSE
    /\ pending' = {}
    /\ scanned' = 0
    /\ collected' = << >>
    /\ cur' = 0
    /\ txrows' = << >>
    /\ results' = << >>
    /\ failedAt' = 0
    /\ rxpos' = 0
    /\ outcome' = "none"
    /\ surfaced' = "none"
    /\ conns' = {}
    /\ writers' = << >>
    /\ overlapped' = FALSE
    /\ openFailed' = FALSE
    /\ UNCHANGED << tableExists, table >>

Next ==
    \/ \E bs \in 0..MaxBatchSize, tree \in Trees : Call(bs, tree)
    \/ \E out \in SetupOutcomes, e \in ErrCodes : Setup(out, e)
    \/ \E p \in Paths : ScanEntry(p)
    \/ Chunks
    \/ \E ok \in BOOLEAN : OpenConn(ok)
    \/ \E r \in {OK} \cup ErrCodes : Begin(r)
    \/ \E r \in {OK} \cup ErrCodes : Prepare(r)
    \/ \E r \in {OK} \cup ErrCodes : Insert(r)
    \/ \E r \in {OK} \cup ErrCodes : Commit(r)
    \/ DrainRecv
    \/ DrainEnd
    \/ Return

Spec == Init /\ [][Next]_vars

\* ------------------------------------------------------------ properties
\* positions at which the Vec is complete and chunked
ChunkedPcs == {"open", "begin", "prepare", "insert", "drain", "returned",
               "panicked"}

\* the rows a committed batch i leaves in the table
BatchRows(i) == [k \in 1..Len(Batch(i)) |-> Row(Batch(i)[k])]

\* the rows of the table that come from a record of batch i of this call
RowsOfBatch(i) ==
    SelectSeq(table, LAMBDA row :
        /\ ~row.stale
        /\ \E k \in 1..Len(Batch(i)) : Batch(i)[k].full_path = row.full_path)

\* the rows of the batches 1..n whose write returned Ok, in batch order
RECURSIVE CommittedRows(_)
CommittedRows(n) ==
    IF n = 0 THEN << >>
    ELSE CommittedRows(n - 1)
         \o (IF results[n] = OK THEN BatchRows(n) ELSE << >>)

AllFresh(tbl) == \A k \in 1..Len(tbl) : ~tbl[k].stale
AllStale(tbl) == \A k \in 1..Len(tbl) : tbl[k].stale

\* the store is as the call found it: the table was neither created nor
\* cleared, and no row was added (rows leave the table only all together)
StoreUntouched ==
    /\ tableExists = preExists
    /\ AllStale(table)
    /\ preRows <=> (table # << >>)

ReturnedErrAfterSetup == pc = "returned" /\ setupOk /\ outcome = "Err"

\* C1: batch atomicity. Once the batches are fixed, the table holds of every
\* batch either all its rows or none: none while its write has not reported
\* (rows of an open transaction are not in the table), none after it
\* reported an error - whichever step failed - and all after it reported Ok.
\* This holds in every later state, so no batch write touches the rows of
\* another batch.
C1_BatchAtomicity ==
    (setupOk /\ pc \in ChunkedPcs) =>
        \A i \in 1..NumBatches :
            /\ RowsOfBatch(i) \in {<< >>, BatchRows(i)}
            /\ i > Len(results) => RowsOfBatch(i) = << >>
            /\ (i <= Len(results) /\ results[i] # OK) => RowsOfBatch(i) = << >>
            /\ (i <= Len(results) /\ results[i] = OK)
                   => RowsOfBatch(i) = BatchRows(i)

\* one batch write failed after at least one of its inserts had succeeded
\* and left no row, while another batch is committed with all its rows
C1_Witness ==
    /\ setupOk /\ pc \in ChunkedPcs
    /\ failedAt >= 2
    /\ \E i, j \in 1..Len(results) :
           /\ results[i] # OK
           /\ RowsOfBatch(i) = << >>
           /\ \A k \in 1..Len(results) : k # i => results[k] = OK
           /\ j # i
           /\ RowsOfBatch(j) = BatchRows(j)

\* C2: when a call is rejected for its batch_size of 0 (the only rejection
\* the code has for it is the panic of chunks), the store is as the call
\* found it and nothing has been scanned.
C2_ZeroBatchRejectedUntouched ==
    (batch_size = 0 /\ pc = "panicked") =>
        /\ StoreUntouched
        /\ scanned = 0
        /\ collected = << >>

\* C3: after a successful setup, the call returns Ok exactly when every
\* batch is committed (all its rows are in the table), and returns Err
\* exactly when some batch write reported an error on the channel.
C3_ResultIffAllCommitted ==
    (pc = "returned" /\ setupOk) =>
        /\ outcome \in {"Ok", "Err"}
        /\ outcome = "Ok" <=>
               \A i \in 1..NumBatches : RowsOfBatch(i) = BatchRows(i)
        /\ outcome = "Err" <=>
               \E i \in 1..Len(results) : results[i] # OK

\* a run of two batches or more that returned Ok
C3_Witness ==
    /\ pc = "returned" /\ setupOk /\ outcome = "Ok"
    /\ NumBatches >= 2
    /\ \A i \in 1..NumBatches : RowsOfBatch(i) = BatchRows(i)

\* C4: the drain, and so the failure, comes only after every batch has been
\* attempted and has reported: each batch has its result on the channel and
\* no transaction is open.
C4_FailureAfterAllReported ==
    (setupOk /\ pc \in {"drain", "returned"}) =>
        /\ Len(results) = NumBatches
        /\ txrows = << >>
        /\ outcome = "Err" => cur = NumBatches

\* the run failed, and a batch after the first failed one was still written
C4_Witness ==
    /\ ReturnedErrAfterSetup
    /\ \E i, j \in 1..Len(results) :
           /\ i < j
           /\ results[i] # OK
           /\ results[j] = OK
           /\ RowsOfBatch(j) = BatchRows(j)

\* C5: when the run returns Err, every error sent on the channel has been
\* received by the drain loop.
C5_AllFailuresObserved ==
    ReturnedErrAfterSetup =>
        \A i \in 1..Len(results) : results[i] # OK => i <= rxpos

\* C6: the error returned is the earliest error on the channel: every value
\* sent before it is Ok, and nothing sent after it was received.
C6_SurfacedIsFirstError ==
    ReturnedErrAfterSetup =>
        \E i \in 1..Len(results) :
            /\ results[i] # OK
            /\ \A j \in 1..(i - 1) : results[j] = OK
            /\ surfaced = results[i]
            /\ rxpos = i

\* two batches failed with different errors
C6_Witness ==
    /\ ReturnedErrAfterSetup
    /\ \E i, j \in 1..Len(results) :
           /\ i < j
           /\ results[i] # OK
           /\ results[j] # OK
           /\ results[i] # results[j]

\* C7: after a run that returned Err because of batch-write errors, the
\* table is exactly the rows of the batches whose write returned Ok.
C7_FailedRunKeepsCommitted ==
    ReturnedErrAfterSetup => table = CommittedRows(Len(results))

\* a failed run in which a batch committed before another one failed
C7_Witness ==
    /\ ReturnedErrAfterSetup
    /\ \E i, j \in 1..Len(results) :
           i < j /\ results[i] = OK /\ results[j] # OK
    /\ table # << >>

\* C8: once setup_db has returned Ok the table exists and holds no row of
\* an earlier call, and it is empty until the first batch commits.
C8_SetupLeavesEmptyTable ==
    setupOk =>
        /\ tableExists
        /\ AllFresh(table)
        /\ pc = "scan" => table = << >>

\* setup_db has just cleared a table that held rows of an earlier call
C8_Witness == setupOk /\ pc = "scan" /\ preRows /\ table = << >>

\* C9: a call whose setup has not succeeded is still in setup or has
\* returned the error, with nothing walked, nothing extracted, no batch
\* attempted and no row written.
C9_SetupFailureAborts ==
    (~setupOk /\ pc \notin {"idle", "init"}) =>
        /\ pc = "returned"
        /\ outcome = "Err"
        /\ surfaced \in ErrCodes
        /\ pending = {} /\ scanned = 0 /\ collected = << >>
        /\ cur = 0 /\ results = << >> /\ txrows = << >>
        /\ AllStale(table)

\* the call returned the setup error over a tree that holds entries
C9_Witness ==
    /\ pc = "returned" /\ ~setupOk /\ outcome = "Err"
    /\ WalkEntries(fs) # {}

\* the readable regular files under root
RegularFiles == { p \in Children : fs[p] = "file" }

\* C10: a run with batch_size >= 1 that returned Ok leaves one row per
\* readable regular file under root, each path once, and no other row.
C10_ExactlyTheFiles ==
    (pc = "returned" /\ setupOk /\ outcome = "Ok" /\ batch_size >= 1) =>
        /\ Len(table) = Cardinality(RegularFiles)
        /\ \A k \in 1..Len(table) : table[k].full_path \in RegularFiles
        /\ \A k, l \in 1..Len(table) :
               table[k].full_path = table[l].full_path => k = l

\* the entries that are there, are walked without error, have readable
\* metadata, a file name and a parent
Extractable == { p \in Paths : fs[p] \in {"file", "dir"} }

CollectedPaths == { collected[k].full_path : k \in 1..Len(collected) }

FreshPaths == { table[k].full_path : k \in { n \in 1..Len(table) : ~table[n].stale } }

\* C11: per-file errors never propagate. While the tree is scanned no error
\* and no panic is raised and no record comes from an entry that errors in
\* the walk, has unreadable metadata or has no file name or parent; once
\* the scan is over the records are exactly one per other entry, whatever
\* the failing entries are, and no row is ever written for a failing entry.
C11_SoftFailNeverPropagates ==
    /\ pc = "scan" => (outcome = "none" /\ CollectedPaths \subseteq Extractable)
    /\ (setupOk /\ pc \in ChunkedPcs) =>
           /\ CollectedPaths = Extractable
           /\ Len(collected) = Cardinality(Extractable)
           /\ FreshPaths \subseteq Extractable

\* a run over a tree with an entry that scan_file gives up on returned Ok
\* with the rows of the other entries
C11_Witness ==
    /\ pc = "returned" /\ setupOk /\ outcome = "Ok"
    /\ WalkEntries(fs) \ Extractable # {}
    /\ \E p \in Paths : fs[p] = "nometa"
    /\ Extractable # {}
    /\ FreshPaths = Extractable

\* C12: a missing root is not an error. With batch_size >= 1 and a store
\* that was set up, the walk hands nothing to scan_file, no record is
\* collected, no batch is dispatched, the call can only go on to return Ok,
\* and the table exists and is empty.
C12_MissingRootIsEmptyRun ==
    (fs[Root] = "missing" /\ batch_size >= 1 /\ setupOk) =>
        /\ pc \in {"scan", "drain", "returned"}
        /\ pending = {} /\ scanned = 0 /\ collected = << >>
        /\ cur = 0 /\ results = << >> /\ txrows = << >>
        /\ tableExists /\ table = << >>
        /\ outcome = (IF pc = "returned" THEN "Ok" ELSE "none")

\* a call on a missing root returned Ok over a store that held rows of an
\* earlier call
C12_Witness ==
    /\ fs[Root] = "missing" /\ batch_size >= 1 /\ setupOk
    /\ pc = "returned" /\ outcome = "Ok"
    /\ preRows /\ table = << >>

\* C13: the error returned identifies the batch that failed: no other batch
\* write of the run produced the same error value as the one surfaced, so
\* the value alone tells which batch it is.
C13_ErrorIdentifiesBatch ==
    ReturnedErrAfterSetup =>
        \A j \in 1..Len(results) : results[j] = surfaced => j = rxpos

\* how often path p is a row of this call, and a collected record
RowCount(p) ==
    Cardinality({ k \in 1..Len(table) :
                    ~table[k].stale /\ table[k].full_path = p })
RecCount(p) ==
    Cardinality({ k \in 1..Len(collected) : collected[k].full_path = p })

\* the places (batch, offset) at which the k-th collected record is written
PlacesOf(k) ==
    { pl \in (1..NumBatches) \X (1..batch_size) :
        /\ pl[2] <= Len(Batch(pl[1]))
        /\ Batch(pl[1])[pl[2]] = collected[k] }

\* C14: after a run without write error, whatever the order in which the
\* parallel extraction pushed the records: each extractable entry gave one
\* record, each record sits at one place of one batch, and each record is
\* one row of the table - none lost, none written twice, no other row.
C14_RowsAreTheRecords ==
    (pc = "returned" /\ setupOk /\ outcome = "Ok") =>
        /\ \A p \in Paths :
               RecCount(p) = (IF p \in Extractable THEN 1 ELSE 0)
        /\ \A k \in 1..Len(collected) : Cardinality(PlacesOf(k)) = 1
        /\ \A p \in Paths : RowCount(p) = RecCount(p)
        /\ Len(table) = Len(collected)

\* a run of two batches or more returned Ok with the records collected out
\* of path order
C14_Witness ==
    /\ pc = "returned" /\ setupOk /\ outcome = "Ok"
    /\ NumBatches >= 2
    /\ \E k \in 1..(Len(collected) - 1) :
           collected[k].full_path > collected[k + 1].full_path
    /\ Len(table) = Len(collected)

\* the batches 1..n one after the other
RECURSIVE ConcatBatches(_)
ConcatBatches(n) ==
    IF n = 0 THEN << >> ELSE ConcatBatches(n - 1) \o Batch(n)

\* C15: for batch_size >= 1 the batches handed to the writer are consecutive
\* pieces of the collected records: each is non-empty and no longer than
\* batch_size, each but the last has exactly batch_size records, together
\* and in order they are the record sequence, and no record gives no batch.
\* A transaction holds a prefix of its batch, in the batch's order.
C15_BatchesPartitionRecords ==
    (setupOk /\ batch_size >= 1 /\ pc \in ChunkedPcs) =>
        /\ \A i \in 1..NumBatches :
               /\ Len(Batch(i)) >= 1
               /\ Len(Batch(i)) <= batch_size
               /\ i < NumBatches => Len(Batch(i)) = batch_size
        /\ ConcatBatches(NumBatches) = collected
        /\ collected = << >> => NumBatches = 0
        /\ txrows # << >> =>
               /\ Len(txrows) <= Len(Batch(cur))
               /\ \A k \in 1..Len(txrows) : txrows[k] = Row(Batch(cur)[k])

\* all batches are written and the last one is shorter than batch_size
C15_Witness ==
    /\ setupOk /\ pc = "drain"
    /\ NumBatches >= 2
    /\ Len(Batch(NumBatches)) < batch_size
    /\ Len(results) = NumBatches

\* C16: a call that has ended has ended in Done (Ok returned) or Failed (Err
\* returned) and in no other way, it went through the drain unless setup
\* failed, and while it waits on the channel it can always go on.
C16_EndsDoneOrFailed ==
    /\ pc \in {"returned", "panicked"} =>
           /\ pc = "returned"
           /\ outcome \in {"Ok", "Err"}
           /\ setupOk => rxpos = Len(results) \/ outcome = "Err"
    /\ pc = "drain" => (ENABLED DrainRecv \/ ENABLED DrainEnd)

\* a batch write has begun: a batch is at its connection or transaction,
\* a result is on the channel or a row of this call is in the table
WriteBegun ==
    \/ pc \in {"open", "begin", "prepare", "insert"}
    \/ results # << >>
    \/ txrows # << >>
    \/ FreshPaths # {}

\* C19: no batch write begins before the whole tree is walked and
\* extracted: once a write has begun every walked entry has been through
\* scan_file and the records, and so the batches, are complete.
C19_WritesAfterExtraction ==
    (setupOk /\ WriteBegun) =>
        /\ pending = {}
        /\ scanned = Cardinality(WalkEntries(fs))
        /\ CollectedPaths = Extractable
        /\ Len(collected) = Cardinality(Extractable)

\* the first transaction is about to open over a tree of several entries,
\* one of which gave no record
C19_Witness ==
    /\ setupOk /\ pc = "begin" /\ cur = 1 /\ results = << >>
    /\ scanned >= 3
    /\ Len(collected) >= 2
    /\ table = << >>

\* the batch writes come strictly one after another: at most one batch
\* connection, and so one write transaction, is open at any time
OneWriterAtATime == Cardinality(InProgress) <= 1 /\ ~overlapped

\* C17: batches are written concurrently: in a run of two batches or more,
\* by the time every batch has reported, the writes of two different
\* batches have been in progress at the same time.
C17_WritesOverlap ==
    (setupOk /\ pc = "drain" /\ NumBatches >= 2) => overlapped

\* C18: connections are never shared between batch writers: the writes
\* begun so far each run on a connection of their own, none of them on the
\* connection setup_db ran on; the connection of a write that has reported
\* is closed; the write in progress holds its connection open; and a call
\* that has ended holds no connection.
C18_ConnectionPerBatch ==
    /\ \A i, j \in 1..Len(writers) : writers[i] = writers[j] => i = j
    /\ \A i \in 1..Len(writers) : writers[i] # SetupConn
    /\ \A i \in 1..Len(results) : i <= Len(writers) /\ writers[i] \notin conns
    /\ pc \in {"begin", "prepare", "insert"} =>
           /\ Len(writers) = cur
           /\ writers[cur] \in conns
           /\ SetupConn \in conns
    /\ pc \in {"idle", "returned", "panicked"} => conns = {}

\* the second batch is inserting on its own connection while the setup
\* connection is still open and the first batch's connection is closed
C18_Witness ==
    /\ pc = "insert" /\ cur = 2 /\ txrows # << >>
    /\ SetupConn \in conns
    /\ writers[1] \notin conns
    /\ writers[2] \in conns

\* C20: when the connection of a batch cannot be opened the call panics
\* there: that batch puts nothing on the channel, no later batch is
\* attempted, the channel is never drained, no error value is returned,
\* and the table keeps exactly the rows of the batches committed before.
C20_OpenFailureAborts ==
    openFailed =>
        /\ pc = "panicked"
        /\ outcome = "Panic"
        /\ cur \in 1..NumBatches
        /\ Len(results) = cur - 1
        /\ Len(writers) = cur - 1
        /\ rxpos = 0
        /\ surfaced = "none"
        /\ txrows = << >>
        /\ table = CommittedRows(Len(results))

\* the second of three batches could not open its connection after the
\* first one had committed
C20_Witness ==
    /\ openFailed /\ pc = "panicked"
    /\ cur = 2 /\ NumBatches >= 3
    /\ results = << OK >>
    /\ table = BatchRows(1)

====
